---------------------------- MODULE Spec2Model ----------------------------
(***************************************************************************)
(* Model of the field validators of src/src/utils/validators.py.           *)
(*                                                                         *)
(* A Python value is a record [type, s, n] (plus d for a dict): type is    *)
(* the runtime type name, s the text of a str as a sequence of Unicode     *)
(* code points, n the number held by an int, bool or float (or the length  *)
(* of a list), d the mapping of a dict from key to value.  A call either   *)
(* returns "True" / "False" or ends with the name of the exception it      *)
(* lets escape.                                                            *)
(*                                                                         *)
(* input is the value a caller holds, called the validator applied last    *)
(* and verdict what it returned.  now is the current time, which passes    *)
(* between calls and which the module could read through the datetime it   *)
(* imports.  seen is the caller's record of the calls made on the value:   *)
(* for each validator the verdict of its first call and how many calls it  *)
(* got.                                                                    *)
(***************************************************************************)
EXTENDS Integers, Sequences, FiniteSets

VARIABLES input, called, verdict, now, seen

vars == <<input, called, verdict, now, seen>>

(***************************************************************************)
(* Characters (code points) and the character classes of Python's re.      *)
(***************************************************************************)
Ch == [tab |-> 9, nl |-> 10, sp |-> 32, lparen |-> 40, rparen |-> 41,
       plus |-> 43, minus |-> 45, dot |-> 46, zero |-> 48, nine |-> 57,
       colon |-> 58, at |-> 64, A |-> 65, Z |-> 90, under |-> 95,
       a |-> 97, z |-> 122, eacute |-> 233, arzero |-> 1632, arnine |-> 1641]

\* [a-zA-Z0-9]: ASCII only, whatever the flags of the pattern.
IsAsciiAlnum(c) ==
    \/ c \in Ch.a..Ch.z
    \/ c \in Ch.A..Ch.Z
    \/ c \in Ch.zero..Ch.nine

\* \d of a str pattern: every Unicode decimal digit (category Nd).  The
\* ASCII digits and the ARABIC-INDIC digits U+0660..U+0669 stand for them.
IsDigit(c) == c \in Ch.zero..Ch.nine \/ c \in Ch.arzero..Ch.arnine

\* int(c) of a one-character str: the value of a decimal digit, else ValueError.
DigitVal(c) == IF c \in Ch.zero..Ch.nine THEN c - Ch.zero ELSE c - Ch.arzero

\* \s of a str pattern (the ASCII part of Unicode whitespace).
IsSpace(c) == c \in 9..13 \/ c \in 28..32

(***************************************************************************)
(* Python values.                                                          *)
(***************************************************************************)
PyStr(s)   == [type |-> "str", s |-> s, n |-> 0]
PyNone     == [type |-> "NoneType", s |-> <<>>, n |-> 0]
PyInt(n)   == [type |-> "int", s |-> <<>>, n |-> n]
PyBool(n)  == [type |-> "bool", s |-> <<>>, n |-> n]
PyFloat(n) == [type |-> "float", s |-> <<>>, n |-> n]
PyList(n)  == [type |-> "list", s |-> <<>>, n |-> n]
PyDict(d)  == [type |-> "dict", s |-> <<>>, n |-> 0, d |-> d]

\* bool(v) is False: the `not x` of the guards.
Falsy(v) ==
    CASE v.type = "NoneType" -> TRUE
      [] v.type = "str"      -> Len(v.s) = 0
      [] v.type = "dict"     -> DOMAIN v.d = {}
      [] OTHER               -> v.n = 0

\* isinstance(v, str)
IsStr(v) == v.type = "str"

\* isinstance(v, int): bool is a subclass of int.
IsInt(v) == v.type \in {"int", "bool"}

\* isinstance(v, dict)
IsDict(v) == v.type = "dict"

\* A returned bool.
Ret(b) == IF b THEN "True" ELSE "False"

(***************************************************************************)
(* is_valid_email                                                          *)
(***************************************************************************)
EmailLocalChar(c)  == IsAsciiAlnum(c) \/ c \in {Ch.under, Ch.dot, Ch.plus, Ch.minus}
EmailDomainChar(c) == IsAsciiAlnum(c) \/ c = Ch.minus
EmailTailChar(c)   == IsAsciiAlnum(c) \/ c \in {Ch.minus, Ch.dot}

\* The positions where `$` matches without re.MULTILINE: the end of the
\* string, and just before a newline that is the last character.
DollarEnds(s) ==
    {Len(s)} \cup (IF Len(s) > 0 /\ s[Len(s)] = Ch.nl THEN {Len(s) - 1} ELSE {})

\* re.match(r'^[a-zA-Z0-9_.+-]+@[a-zA-Z0-9-]+\.[a-zA-Z0-9-.]+$', s) is not None
\* i is the position of '@', j of the literal '.', e where `$` matches.
EmailRegexMatches(s) ==
    \E e \in DollarEnds(s) : \E i \in 1..e : \E j \in (i + 1)..e :
        /\ i >= 2
        /\ \A k \in 1..(i - 1) : EmailLocalChar(s[k])
        /\ s[i] = Ch.at
        /\ j >= i + 2
        /\ \A k \in (i + 1)..(j - 1) : EmailDomainChar(s[k])
        /\ s[j] = Ch.dot
        /\ e >= j + 1
        /\ \A k \in (j + 1)..e : EmailTailChar(s[k])

\* re.match raises TypeError on anything but text.
EmailBody(email) ==
    IF ~IsStr(email) THEN "TypeError"
    ELSE Ret(EmailRegexMatches(email.s))

is_valid_email(email) ==
    IF Falsy(email) \/ ~IsStr(email) THEN "False"
    ELSE EmailBody(email)

(***************************************************************************)
(* is_valid_cpf and is_valid_phone                                         *)
(***************************************************************************)
\* re.sub(r'[^\d]', '', s): the subsequence of the digits of s.
RECURSIVE StripNonDigits(_)
StripNonDigits(s) ==
    IF s = <<>> THEN <<>>
    ELSE (IF IsDigit(Head(s)) THEN <<Head(s)>> ELSE <<>>) \o StripNonDigits(Tail(s))

\* cpf == cpf[0] * 11: the string is its first character eleven times.
CpfRepeated(cpf) == \A k \in 1..Len(cpf) : cpf[k] = cpf[1]

\* sum(int(cpf[num]) * ((i + 1) - num) for num in range(0, i))
RECURSIVE CpfSum(_, _, _)
CpfSum(cpf, i, num) ==
    IF num >= i THEN 0
    ELSE DigitVal(cpf[num + 1]) * ((i + 1) - num) + CpfSum(cpf, i, num + 1)

\* CpfDigit without the final % 10: a remainder of 10 is not turned into 0.
CpfDigit_NoMod10(cpf, i) == (CpfSum(cpf, i, 0) * 10) % 11

\* ((value * 10) % 11) % 10
CpfDigit(cpf, i) == ((CpfSum(cpf, i, 0) * 10) % 11) % 10

\* for i in range(9, 11): the first failing position returns False.
RECURSIVE CpfCheckFrom(_, _)
CpfCheckFrom(cpf, i) ==
    IF i >= 11 THEN "True"
    ELSE IF CpfDigit(cpf, i) # DigitVal(cpf[i + 1]) THEN "False"
    ELSE CpfCheckFrom(cpf, i + 1)

CpfOfDigits(cpf) ==
    IF Len(cpf) # 11 THEN "False"
    ELSE IF CpfRepeated(cpf) THEN "False"
    ELSE CpfCheckFrom(cpf, 9)

\* The body after the guard; re.sub raises TypeError on anything but text.
CpfBody(cpf) ==
    IF ~IsStr(cpf) THEN "TypeError"
    ELSE CpfOfDigits(StripNonDigits(cpf.s))

is_valid_cpf(cpf) ==
    IF Falsy(cpf) \/ ~IsStr(cpf) THEN "False"
    ELSE CpfBody(cpf)

\* PhoneBody with a lower limit only: len(phone) >= 10.
PhoneBody_AtLeast10(phone) ==
    IF ~IsStr(phone) THEN "TypeError"
    ELSE Ret(Len(StripNonDigits(phone.s)) >= 10)

PhoneBody(phone) ==
    IF ~IsStr(phone) THEN "TypeError"
    ELSE Ret(Len(StripNonDigits(phone.s)) \in {10, 11})

is_valid_phone(phone) ==
    IF Falsy(phone) \/ ~IsStr(phone) THEN "False"
    ELSE PhoneBody(phone)

(***************************************************************************)
(* is_valid_appointment_time: datetime.strptime(s, '%Y-%m-%d %H:%M')       *)
(***************************************************************************)
\* The character at position p (1-based), or -1 past the end.
At(s, p) == IF p \in 1..Len(s) THEN s[p] ELSE -1

InRange(c, lo, hi) == c \in (Ch.zero + lo)..(Ch.zero + hi)

\* %m is (1[0-2]|0[1-9]|[1-9]): the lengths it can take at p.
MonthLens(s, p) ==
    (IF \/ At(s, p) = Ch.zero + 1 /\ InRange(At(s, p + 1), 0, 2)
        \/ At(s, p) = Ch.zero /\ InRange(At(s, p + 1), 1, 9)
     THEN {2} ELSE {})
    \cup (IF InRange(At(s, p), 1, 9) THEN {1} ELSE {})

\* %d is (3[0-1]|[1-2]\d|0[1-9]|[1-9]| [1-9]).
DayLens(s, p) ==
    (IF \/ At(s, p) = Ch.zero + 3 /\ InRange(At(s, p + 1), 0, 1)
        \/ InRange(At(s, p), 1, 2) /\ IsDigit(At(s, p + 1))
        \/ At(s, p) = Ch.zero /\ InRange(At(s, p + 1), 1, 9)
        \/ At(s, p) = Ch.sp /\ InRange(At(s, p + 1), 1, 9)
     THEN {2} ELSE {})
    \cup (IF InRange(At(s, p), 1, 9) THEN {1} ELSE {})

\* %H is (2[0-3]|[0-1]\d|\d).
HourLens(s, p) ==
    (IF \/ At(s, p) = Ch.zero + 2 /\ InRange(At(s, p + 1), 0, 3)
        \/ InRange(At(s, p), 0, 1) /\ IsDigit(At(s, p + 1))
     THEN {2} ELSE {})
    \cup (IF IsDigit(At(s, p)) THEN {1} ELSE {})

\* %M is ([0-5]\d|\d), the last group: the first alternative that matches
\* is the one the match keeps (0: none does).
MinuteLen(s, p) ==
    IF InRange(At(s, p), 0, 5) /\ IsDigit(At(s, p + 1)) THEN 2
    ELSE IF IsDigit(At(s, p)) THEN 1
    ELSE 0

\* The blank of the format is \s+: the runs of whitespace from p.
SpaceLens(s, p) ==
    {w \in 1..Len(s) : \A k \in p..(p + w - 1) : IsSpace(At(s, k))}

\* int() of a group: decimal digits of any script, blanks around them dropped.
RECURSIVE IntOf(_)
IntOf(s) ==
    IF s = <<>> THEN 0
    ELSE IF IsDigit(s[Len(s)])
         THEN 10 * IntOf(SubSeq(s, 1, Len(s) - 1)) + DigitVal(s[Len(s)])
         ELSE IntOf(SubSeq(s, 1, Len(s) - 1))

\* The matches of (\d\d\d\d)-(%m)-(%d)\s+(%H):(%M) from the start of s, each
\* with the fields it captured and the position where it ends.  The
\* separators leave at most one.
StrptimeMatches(s) ==
    IF ~(/\ \A k \in 1..4 : IsDigit(At(s, k))
         /\ At(s, 5) = Ch.minus)
    THEN {}
    ELSE UNION { UNION { UNION { UNION {
        IF /\ At(s, 6 + ml) = Ch.minus
           /\ At(s, 7 + ml + dl + wl + hl) = Ch.colon
           /\ MinuteLen(s, 8 + ml + dl + wl + hl) > 0
        THEN {[year   |-> IntOf(SubSeq(s, 1, 4)),
               month  |-> IntOf(SubSeq(s, 6, 5 + ml)),
               day    |-> IntOf(SubSeq(s, 7 + ml, 6 + ml + dl)),
               hour   |-> IntOf(SubSeq(s, 7 + ml + dl + wl, 6 + ml + dl + wl + hl)),
               minute |-> IntOf(SubSeq(s, 8 + ml + dl + wl + hl,
                                       7 + ml + dl + wl + hl
                                         + MinuteLen(s, 8 + ml + dl + wl + hl))),
               end    |-> 7 + ml + dl + wl + hl
                            + MinuteLen(s, 8 + ml + dl + wl + hl)]}
        ELSE {}
        : hl \in HourLens(s, 7 + ml + dl + wl) }
        : wl \in SpaceLens(s, 7 + ml + dl) }
        : dl \in DayLens(s, 7 + ml) }
        : ml \in MonthLens(s, 6) }

\* calendar.isleap
IsLeap(y) == y % 4 = 0 /\ (y % 100 # 0 \/ y % 400 = 0)

\* calendar.monthrange: the days of month m of year y.
DaysInMonth(y, m) ==
    IF m = 2 THEN (IF IsLeap(y) THEN 29 ELSE 28)
    ELSE IF m \in {4, 6, 9, 11} THEN 30
    ELSE 31

\* Strptime as a check of the shape alone: the day is not held against the
\* month and the year.
Strptime_ShapeOnly(v) ==
    IF ~IsStr(v) THEN "TypeError"
    ELSE IF StrptimeMatches(v.s) = {} THEN "ValueError"
    ELSE LET f == CHOOSE g \in StrptimeMatches(v.s) : TRUE
         IN  IF f.end # Len(v.s) THEN "ValueError"
             ELSE "datetime"

\* datetime.strptime(v, '%Y-%m-%d %H:%M'): "datetime" when it returns one,
\* else the exception: TypeError for an argument that is no text, ValueError
\* for no match, unconverted data, year 0 (below MINYEAR) or a day the
\* month does not have.
Strptime(v) ==
    IF ~IsStr(v) THEN "TypeError"
    ELSE IF StrptimeMatches(v.s) = {} THEN "ValueError"
    ELSE LET f == CHOOSE g \in StrptimeMatches(v.s) : TRUE
         IN  IF f.end # Len(v.s) THEN "ValueError"
             ELSE IF f.year < 1 THEN "ValueError"
             ELSE IF f.day > DaysInMonth(f.year, f.month) THEN "ValueError"
             ELSE "datetime"

\* TimeBody without the except clause: the ValueError of strptime escapes.
TimeBody_NoExcept(appointment_time) ==
    LET r == Strptime(appointment_time)
    IN  IF r = "datetime" THEN "True" ELSE r

\* TimeBody that also refuses a time of a year gone by: it reads the clock
\* (the year being 2025 when the calls begin).
TimeBody_NotInPast(appointment_time) ==
    LET r == Strptime(appointment_time)
    IN  IF r = "datetime"
        THEN Ret((CHOOSE g \in StrptimeMatches(appointment_time.s) : TRUE).year
                   >= 2025 + now)
        ELSE IF r = "ValueError" THEN "False"
        ELSE r

\* try: strptime(...); return True / except ValueError: return False
TimeBody(appointment_time) ==
    LET r == Strptime(appointment_time)
    IN  IF r = "datetime" THEN "True"
        ELSE IF r = "ValueError" THEN "False"
        ELSE r

is_valid_appointment_time(appointment_time) ==
    IF Falsy(appointment_time) \/ ~IsStr(appointment_time) THEN "False"
    ELSE TimeBody(appointment_time)

(***************************************************************************)
(* is_valid_patient_data and is_valid_appointment_data                     *)
(***************************************************************************)
\* all(field in data for field in required_fields)
HasFields(data, required_fields) == required_fields \subseteq DOMAIN data.d

\* v <= 0: a number compares; text, None or a list raises TypeError.
LeZero(v) ==
    IF v.type \in {"int", "bool", "float"} THEN Ret(v.n <= 0)
    ELSE "TypeError"

\* PatientFields that also holds the contact against is_valid_phone.
PatientFields_ContactChecked(patient_data) ==
    IF ~({"age", "name", "contact"} \subseteq DOMAIN patient_data.d) THEN "KeyError"
    ELSE LET age  == patient_data.d["age"]
             name == patient_data.d["name"]
         IN  IF ~IsInt(age) THEN "False"
             ELSE IF LeZero(age) = "True" THEN "False"
             ELSE IF LeZero(age) # "False" THEN LeZero(age)
             ELSE IF Falsy(name) \/ ~IsStr(name) THEN "False"
             ELSE is_valid_phone(patient_data.d["contact"])

\* The checks of age and name: `not isinstance(age, int) or age <= 0`
\* returns False, then `not name or not isinstance(name, str)` does.  A
\* subscript with a key the dict lacks raises KeyError.
PatientFields(patient_data) ==
    IF ~({"age", "name"} \subseteq DOMAIN patient_data.d) THEN "KeyError"
    ELSE LET age  == patient_data.d["age"]
             name == patient_data.d["name"]
         IN  IF ~IsInt(age) THEN "False"
             ELSE IF LeZero(age) = "True" THEN "False"
             ELSE IF LeZero(age) # "False" THEN LeZero(age)
             ELSE IF Falsy(name) \/ ~IsStr(name) THEN "False"
             ELSE "True"

is_valid_patient_data(patient_data) ==
    IF ~IsDict(patient_data) THEN "False"
    ELSE IF ~HasFields(patient_data, {"name", "age", "contact"}) THEN "False"
    ELSE PatientFields(patient_data)

\* str(n) of an int n >= 0.
RECURSIVE Decimal(_)
Decimal(n) ==
    IF n < 10 THEN <<Ch.zero + n>>
    ELSE Decimal(n \div 10) \o <<Ch.zero + (n % 10)>>

\* format(v, ''), what an f-string puts for {v}: text as it is, None as
\* "None", a bool as "True" / "False", an int in decimal, a float with its
\* ".0", an empty list as "[]".
Format(v) ==
    CASE v.type = "str"      -> v.s
      [] v.type = "NoneType" -> <<78, 111, 110, 101>>
      [] v.type = "bool"     -> IF v.n = 1 THEN <<84, 114, 117, 101>>
                                ELSE <<70, 97, 108, 115, 101>>
      [] v.type = "int"      -> IF v.n < 0 THEN <<Ch.minus>> \o Decimal(-v.n)
                                ELSE Decimal(v.n)
      [] v.type = "float"    -> (IF v.n < 0 THEN <<Ch.minus>> \o Decimal(-v.n)
                                 ELSE Decimal(v.n)) \o <<Ch.dot, Ch.zero>>
      [] OTHER               -> <<91, 93>>

\* DatetimeStr without the space between the date and the time.
DatetimeStr_NoSpace(appointment_data) ==
    PyStr(Format(appointment_data.d["date"]) \o Format(appointment_data.d["time"]))

\* f"{appointment_data['date']} {appointment_data['time']}"
DatetimeStr(appointment_data) ==
    PyStr(Format(appointment_data.d["date"]) \o <<Ch.sp>>
            \o Format(appointment_data.d["time"]))

AppointmentFields(appointment_data) ==
    IF ~({"date", "time"} \subseteq DOMAIN appointment_data.d) THEN "KeyError"
    ELSE is_valid_appointment_time(DatetimeStr(appointment_data))

is_valid_appointment_data(appointment_data) ==
    IF ~IsDict(appointment_data) THEN "False"
    ELSE IF ~HasFields(appointment_data, {"patient_id", "date", "time"}) THEN "False"
    ELSE AppointmentFields(appointment_data)

(***************************************************************************)
(* The inputs of the calls.  Text is written as its code points.           *)
(***************************************************************************)
MaxEmailLen == 6
MaxPhoneLen == 12
MaxMonth == 13
MaxDay == 32

\* Every text over alphabet of length at most n.
TextsUpTo(alphabet, n) == UNION {[1..k -> alphabet] : k \in 0..n}

\* A number below 100 in two digits, below 10000 in four.
D2(n) == <<Ch.zero + (n \div 10), Ch.zero + (n % 10)>>
D4(n) == D2(n \div 100) \o D2(n % 100)

\* The ASCII digit characters of a sequence of digit values.
Digits(ds) == [k \in 1..Len(ds) |-> Ch.zero + ds[k]]

\* Every text over {a, @, ., newline}, and c1@c2.c3 for every choice of the
\* three characters, and a well-formed address between blanks.
EmailChars == {Ch.a, Ch.Z, Ch.zero, Ch.under, Ch.dot, Ch.plus, Ch.minus,
               Ch.at, Ch.sp, Ch.eacute}
Blanks == {<<>>, <<Ch.sp>>, <<Ch.tab>>, <<Ch.nl>>}
EmailTexts ==
    TextsUpTo({Ch.a, Ch.at, Ch.dot, Ch.nl}, MaxEmailLen)
    \cup {<<c1, Ch.at, c2, Ch.dot, c3>> : c1, c2, c3 \in EmailChars}
    \cup {pre \o <<Ch.a, Ch.plus, Ch.a, Ch.at, Ch.a, Ch.minus, Ch.a, Ch.dot,
                   Ch.a, Ch.dot, Ch.a>> \o suf : pre, suf \in Blanks}
    \cup {<<Ch.a, Ch.at, Ch.a, Ch.at, Ch.a, Ch.dot, Ch.a>>}

\* The first nine digits of a CPF: each digit nine times, and some others.
CpfBases ==
    {[k \in 1..9 |-> c] : c \in 0..9}
    \cup {<<1, 2, 3, 4, 5, 6, 7, 8, 9>>, <<1, 1, 1, 4, 4, 4, 7, 7, 7>>,
          <<5, 2, 9, 9, 8, 2, 2, 4, 7>>, <<0, 0, 0, 0, 0, 0, 0, 0, 1>>,
          <<9, 9, 9, 9, 9, 9, 9, 9, 0>>}

\* ddd.ddd.ddd-dd
Punctuated(ds) ==
    SubSeq(ds, 1, 3) \o <<Ch.dot>> \o SubSeq(ds, 4, 6) \o <<Ch.dot>>
      \o SubSeq(ds, 7, 9) \o <<Ch.minus>> \o SubSeq(ds, 10, 11)

\* The digit at position p written in ARABIC-INDIC.
InArabic(ds, p) == [ds EXCEPT ![p] = Ch.arzero + (ds[p] - Ch.zero)]

\* A base with every pair of check digits: bare, punctuated, between blanks
\* and letters, with one digit in another script, one digit short, one long.
CpfForms(ds) ==
    {ds, Punctuated(ds), <<Ch.sp>> \o Punctuated(ds) \o <<Ch.nl>>,
     <<Ch.a>> \o ds \o <<Ch.z>>,
     InArabic(ds, 11), InArabic(ds, 1), Punctuated(InArabic(ds, 11)),
     SubSeq(ds, 1, 10), ds \o <<ds[11]>>}
CpfTexts ==
    UNION {CpfForms(Digits(b \o <<x, y>>)) : b \in CpfBases, x \in 0..9, y \in 0..9}
    \cup {<<>>, Digits(<<1, 2, 3, 4, 5>>)}

\* Every text over {1, -}, and nine to twelve digits with one more
\* character anywhere.
PhoneChars == {Ch.sp, Ch.lparen, Ch.rparen, Ch.a, Ch.nl, Ch.plus,
               Ch.arzero + 3, Ch.zero}
PhoneTexts ==
    TextsUpTo({Ch.zero + 1, Ch.minus}, MaxPhoneLen)
    \cup {[k \in 1..(n + 1) |-> IF k = p THEN c ELSE Ch.zero + 9] :
            n \in 9..MaxPhoneLen, p \in 1..(MaxPhoneLen + 1), c \in PhoneChars}
    \cup {<<40, 49, 49, 41, 32, 57, 56, 55, 54, 53, 45, 52, 51, 50, 49>>}

\* YYYY-MM-DD HH:MM for every month number and the first and last day
\* numbers up to the bounds.
TimeYears == {0, 1900, 2000, 2024, 2025}
TimeClocks == {<<10, 0>>, <<23, 59>>, <<24, 0>>, <<10, 60>>}
WellShaped(y, m, d, hh, mm) ==
    D4(y) \o <<Ch.minus>> \o D2(m) \o <<Ch.minus>> \o D2(d) \o <<Ch.sp>>
      \o D2(hh) \o <<Ch.colon>> \o D2(mm)
TimeDays == {0, 1, 15} \cup 27..MaxDay
TimeWellShapedTexts ==
    {WellShaped(y, m, d, c[1], c[2]) :
        y \in TimeYears, m \in 0..MaxMonth, d \in TimeDays, c \in TimeClocks}

\* The same fields in other shapes: a short year, fields of one digit, other
\* separators, characters before and after.
TimeShapedTexts ==
    {pre \o y \o <<Ch.minus>> \o m \o <<Ch.minus>> \o d \o sep
         \o hh \o <<Ch.colon>> \o mm \o suf :
        pre \in {<<>>, <<Ch.sp>>},
        y \in {D4(2025), SubSeq(D4(2025), 1, 3)},
        m \in {D2(1), <<Ch.zero + 1>>},
        d \in {D2(5), <<Ch.zero + 5>>, <<Ch.sp, Ch.zero + 5>>},
        sep \in {<<>>, <<Ch.sp>>, <<Ch.sp, Ch.sp>>, <<Ch.tab>>, <<Ch.A + 19>>},
        hh \in {D2(4), <<Ch.zero + 4>>},
        mm \in {D2(3), <<Ch.zero + 3>>},
        suf \in {<<>>, <<Ch.sp>>, <<Ch.nl>>}}
TimeTexts ==
    TimeWellShapedTexts \cup TimeShapedTexts
    \cup {<<50, 48, 50, 53, 45, 48, 49, 45, 49, 53>>, <<49, 52, 58, 51, 48>>, <<105, 110, 118, 97, 108, 105, 100>>,
          InArabic(WellShaped(2025, 1, 15, 14, 30), 4),
          InArabic(WellShaped(2025, 1, 15, 14, 30), 13)}

\* Values that are no text and no record.
OtherValues ==
    {PyNone, PyInt(0), PyInt(30), PyInt(-1), PyBool(0), PyBool(1),
     PyFloat(0), PyFloat(30), PyList(0), PyList(2)}

\* The mapping f kept to the keys of K.
Restrict(f, K) == [k \in K |-> f[k]]

\* Patient drafts: every set of the three keys, with a name, an age and a
\* contact of several types and contents.
PatientNames == {PyStr(<<>>), PyStr(<<74>>), PyStr(<<Ch.sp>>), PyNone, PyInt(5), PyList(1)}
PatientAges ==
    {PyInt(-1), PyInt(0), PyInt(1), PyInt(30), PyStr(Digits(<<3, 0>>)),
     PyBool(1), PyBool(0), PyNone, PyFloat(30), PyList(1)}
PatientContacts ==
    {PyStr(<<>>), PyNone, PyStr(Digits(<<1, 2, 3>>)), PyStr(<<49, 49, 57, 56, 55, 54, 53, 52, 51, 50, 49>>), PyInt(5)}
PatientRecords ==
    {PyDict(Restrict([name |-> n, age |-> a, contact |-> c], K)) :
        n \in PatientNames, a \in PatientAges, c \in PatientContacts,
        K \in SUBSET {"name", "age", "contact"}}

\* Appointment drafts: every set of the three keys, with dates and times
\* that are text of several shapes, None or a number.
AppointmentIds == {PyInt(1), PyNone, PyStr(<<120>>)}
AppointmentDates ==
    {PyStr(<<50, 48, 50, 53, 45, 48, 49, 45, 49, 53>>), PyStr(SubSeq(WellShaped(2025, 2, 30, 0, 0), 1, 10)),
     PyStr(SubSeq(WellShaped(2024, 2, 29, 0, 0), 1, 10)),
     PyStr(<<105, 110, 118, 97, 108, 105, 100>>), PyStr(<<>>), PyStr(<<50, 48, 50, 53, 45, 49, 45, 53>>),
     PyStr(<<50, 48, 50, 53, 45, 48, 49, 45, 49, 53>> \o <<Ch.sp>>), PyStr(WellShaped(2025, 1, 15, 14, 30)),
     PyNone, PyInt(2025)}
AppointmentTimes ==
    {PyStr(<<49, 52, 58, 51, 48>>), PyStr(D2(24) \o <<Ch.colon>> \o D2(0)), PyStr(<<>>),
     PyStr(<<Ch.sp>> \o <<49, 52, 58, 51, 48>>), PyStr(<<49, 52, 58, 51, 48>> \o <<Ch.sp>>),
     PyStr(<<Ch.zero + 4, Ch.colon, Ch.zero + 3>>), PyNone, PyInt(14)}
AppointmentRecords ==
    {PyDict(Restrict([patient_id |-> i, date |-> d, time |-> t], K)) :
        i \in AppointmentIds, d \in AppointmentDates, t \in AppointmentTimes,
        K \in SUBSET {"patient_id", "date", "time"}}

Inputs ==
    {PyStr(s) : s \in EmailTexts \cup CpfTexts \cup PhoneTexts \cup TimeTexts}
    \cup OtherValues \cup PatientRecords \cup AppointmentRecords

(***************************************************************************)
(* The calls.  A caller holds one value and applies validators to it, in   *)
(* any order and any number of times.                                      *)
(***************************************************************************)
Validators ==
    {"is_valid_email", "is_valid_cpf", "is_valid_phone",
     "is_valid_appointment_time", "is_valid_patient_data",
     "is_valid_appointment_data"}

NothingSeen == [v \in Validators |-> [first |-> "none", calls |-> 0]]

Init ==
    /\ input \in Inputs
    /\ called = "none"
    /\ verdict = "none"
    /\ now = 0
    /\ seen = NothingSeen

call_is_valid_email ==
    /\ called' = "is_valid_email"
    /\ verdict' = is_valid_email(input)
    /\ UNCHANGED input

call_is_valid_cpf ==
    /\ called' = "is_valid_cpf"
    /\ verdict' = is_valid_cpf(input)
    /\ UNCHANGED input

call_is_valid_phone ==
    /\ called' = "is_valid_phone"
    /\ verdict' = is_valid_phone(input)
    /\ UNCHANGED input

call_is_valid_appointment_time ==
    /\ called' = "is_valid_appointment_time"
    /\ verdict' = is_valid_appointment_time(input)
    /\ UNCHANGED input

call_is_valid_patient_data ==
    /\ called' = "is_valid_patient_data"
    /\ verdict' = is_valid_patient_data(input)
    /\ UNCHANGED input

call_is_valid_appointment_data ==
    /\ called' = "is_valid_appointment_data"
    /\ verdict' = is_valid_appointment_data(input)
    /\ UNCHANGED input

\* The calls of a caller who keeps no record, at one moment.
Next ==
    \/ call_is_valid_email /\ UNCHANGED <<now, seen>>
    \/ call_is_valid_cpf /\ UNCHANGED <<now, seen>>
    \/ call_is_valid_phone /\ UNCHANGED <<now, seen>>
    \/ call_is_valid_appointment_time /\ UNCHANGED <<now, seen>>
    \/ call_is_valid_patient_data /\ UNCHANGED <<now, seen>>
    \/ call_is_valid_appointment_data /\ UNCHANGED <<now, seen>>

Spec == Init /\ [][Next]_vars

(***************************************************************************)
(* Sequences of calls on one value, interleaved in any order, with time    *)
(* passing between them and the caller recording what each returned.       *)
(***************************************************************************)
MaxCalls == 4
MaxNow == 2

CallInputs ==
    {PyStr(<<>>),
     PyStr(<<Ch.a, Ch.at, Ch.a, Ch.dot, Ch.a>>),
     PyStr(<<Ch.a, Ch.at, Ch.a, Ch.dot, Ch.a, Ch.nl>>),
     PyStr(<<Ch.a, Ch.at, Ch.a>>),
     PyStr(Digits(<<1, 2, 3, 4, 5, 6, 7, 8, 9, 0, 9>>)),
     PyStr(Punctuated(Digits(<<1, 2, 3, 4, 5, 6, 7, 8, 9, 0, 0>>))),
     PyStr(Digits(<<1, 1, 3, 3, 3, 3, 4, 4, 4, 4>>)),
     PyStr(WellShaped(2025, 1, 15, 14, 30)),
     PyStr(WellShaped(2024, 2, 29, 10, 0)),
     PyStr(WellShaped(2025, 2, 30, 10, 0)),
     PyStr(WellShaped(1900, 12, 31, 23, 59)),
     PyStr(SubSeq(WellShaped(2025, 1, 15, 14, 30), 1, 10)),
     PyNone, PyInt(30), PyBool(1), PyList(0),
     PyDict([name |-> PyStr(<<74>>), age |-> PyInt(30), contact |-> PyNone]),
     PyDict([name |-> PyStr(<<74>>), age |-> PyStr(Digits(<<3, 0>>)),
             contact |-> PyNone]),
     PyDict([name |-> PyStr(<<74>>), age |-> PyInt(30)]),
     PyDict([patient_id |-> PyInt(1),
             date |-> PyStr(SubSeq(WellShaped(2025, 1, 15, 14, 30), 1, 10)),
             time |-> PyStr(SubSeq(WellShaped(2025, 1, 15, 14, 30), 12, 16))]),
     PyDict([patient_id |-> PyInt(1),
             date |-> PyStr(SubSeq(WellShaped(2025, 2, 30, 14, 30), 1, 10)),
             time |-> PyStr(SubSeq(WellShaped(2025, 2, 30, 14, 30), 12, 16))]),
     PyDict([patient_id |-> PyInt(1), date |-> PyNone, time |-> PyNone])}

InitCalls ==
    /\ input \in CallInputs
    /\ called = "none"
    /\ verdict = "none"
    /\ now = 0
    /\ seen = NothingSeen

\* The calls made on the value so far.
CallsSoFar ==
    seen["is_valid_email"].calls + seen["is_valid_cpf"].calls
      + seen["is_valid_phone"].calls + seen["is_valid_appointment_time"].calls
      + seen["is_valid_patient_data"].calls
      + seen["is_valid_appointment_data"].calls

\* The caller notes the call just made: its verdict if it is the first of
\* that validator, and one call more.  No time passes within a call.
Record ==
    /\ CallsSoFar < MaxCalls
    /\ now' = now
    /\ seen' = [seen EXCEPT ![called'] =
                   [first |-> IF @.calls = 0 THEN verdict' ELSE @.first,
                    calls |-> @.calls + 1]]

\* Time passes between two calls.
tick ==
    /\ now < MaxNow
    /\ now' = now + 1
    /\ UNCHANGED <<input, called, verdict, seen>>

NextCalls ==
    \/ call_is_valid_email /\ Record
    \/ call_is_valid_cpf /\ Record
    \/ call_is_valid_phone /\ Record
    \/ call_is_valid_appointment_time /\ Record
    \/ call_is_valid_patient_data /\ Record
    \/ call_is_valid_appointment_data /\ Record
    \/ tick

SpecCalls == InitCalls /\ [][NextCalls]_vars

(***************************************************************************)
(* Properties.                                                             *)
(***************************************************************************)
Returned == called # "none"

\* C1 (totality): whatever the value, text or not, well-formed or not,
\* every call of each of the six validators returns a boolean; no exception
\* escapes.
C1_Totality == Returned => verdict \in {"True", "False"}

\* A text that strptime refuses with a ValueError has been judged invalid.
C1_Witness ==
    /\ called = "is_valid_appointment_time"
    /\ verdict = "False"
    /\ IsStr(input)
    /\ Strptime(input) = "ValueError"

\* The digits of s, by position rather than by deletion.
C2_DigitPositions(s) == {k \in 1..Len(s) : IsDigit(s[k])}
RECURSIVE C2_Digits(_, _)
C2_Digits(s, k) ==
    IF k > Len(s) THEN <<>>
    ELSE IF k \in C2_DigitPositions(s) THEN <<s[k]>> \o C2_Digits(s, k + 1)
    ELSE C2_Digits(s, k + 1)

\* Sum over num in 0..i-1 of d[num] * ((i+1) - num), d indexed from 0.
RECURSIVE C2_Weighted(_, _, _)
C2_Weighted(d, i, upto) ==
    IF upto < 0 THEN 0
    ELSE C2_Weighted(d, i, upto - 1) + DigitVal(d[upto + 1]) * ((i + 1) - upto)

C2_CheckDigitOk(d, i) ==
    ((C2_Weighted(d, i, i - 1) * 10) % 11) % 10 = DigitVal(d[i + 1])

C2_Accepts(v) ==
    /\ v.type = "str"
    /\ LET d == C2_Digits(v.s, 1)
       IN  /\ Len(d) = 11
           /\ \E j, k \in 1..11 : d[j] # d[k]
           /\ C2_CheckDigitOk(d, 9)
           /\ C2_CheckDigitOk(d, 10)

C3_RepeatedDigitsRejected ==
    (/\ called = "is_valid_cpf"
     /\ IsStr(input)
     /\ LET d == C2_Digits(input.s, 1)
        IN  /\ Len(d) = 11
            /\ \E c \in 0..9 : \A k \in 1..11 : DigitVal(d[k]) = c)
    => verdict = "False"

\* s is, in its entirety, [A-Za-z0-9_.+-]+ @ [A-Za-z0-9-]+ . [A-Za-z0-9-.]+
C4_WholeShape(s) ==
    \E i \in 2..Len(s) : \E j \in (i + 2)..(Len(s) - 1) :
        /\ s[i] = Ch.at
        /\ s[j] = Ch.dot
        /\ \A k \in 1..(i - 1) : EmailLocalChar(s[k])
        /\ \A k \in (i + 1)..(j - 1) : EmailDomainChar(s[k])
        /\ \A k \in (j + 1)..Len(s) : EmailTailChar(s[k])

\* C4: is_valid_email(s) is true exactly when s is a non-empty text that
\* has, in its entirety, the shape local@domain.tail; so nothing that ends
\* or begins with a blank, a tab or a newline is accepted.
C4_EmailWholeShape ==
    called = "is_valid_email" =>
        (verdict = "True" <=> (IsStr(input) /\ Len(input.s) > 0 /\ C4_WholeShape(input.s)))

\* s is YYYY-MM-DD HH:MM: sixteen characters, digits and separators in
\* their places, month 01-12, hour 00-23, minute 00-59.
C5_Shape(s) ==
    /\ Len(s) = 16
    /\ \A k \in {1, 2, 3, 4, 6, 7, 9, 10, 12, 13, 15, 16} : s[k] \in Ch.zero..Ch.nine
    /\ s[5] = Ch.minus /\ s[8] = Ch.minus /\ s[11] = Ch.sp /\ s[14] = Ch.colon
C5_Field(s, p) == 10 * (s[p] - Ch.zero) + (s[p + 1] - Ch.zero)

\* C5: is_valid_appointment_time(s) is true only if s has exactly the shape
\* YYYY-MM-DD HH:MM with two-digit fields in range and one space.
C5_ExactShape ==
    (called = "is_valid_appointment_time" /\ verdict = "True") =>
        /\ IsStr(input)
        /\ C5_Shape(input.s)
        /\ C5_Field(input.s, 6) \in 1..12
        /\ C5_Field(input.s, 12) \in 0..23
        /\ C5_Field(input.s, 15) \in 0..59

\* C6: is_valid_patient_data(r) is true exactly when r is a record with
\* the keys name, age and contact, age of integer type (no text, no
\* boolean) and above zero, name a non-empty text.
C6_PatientShape ==
    called = "is_valid_patient_data" =>
        (verdict = "True" <=>
            /\ IsDict(input)
            /\ {"name", "age", "contact"} \subseteq DOMAIN input.d
            /\ input.d["age"].type = "int"
            /\ input.d["age"].n > 0
            /\ input.d["name"].type = "str"
            /\ Len(input.d["name"].s) > 0)

\* C7: is_valid_appointment_data(r) is true exactly when r is a record with
\* the keys patient_id, date and time and is_valid_appointment_time accepts
\* the date, one space and the time; the value under patient_id does not
\* matter.
C7_AppointmentComposes ==
    called = "is_valid_appointment_data" =>
        /\ verdict = "True" <=>
             /\ IsDict(input)
             /\ {"patient_id", "date", "time"} \subseteq DOMAIN input.d
             /\ is_valid_appointment_time(
                    PyStr(Format(input.d["date"]) \o <<Ch.sp>>
                            \o Format(input.d["time"]))) = "True"
        /\ (IsDict(input) /\ {"patient_id", "date", "time"} \subseteq DOMAIN input.d) =>
             /\ verdict = is_valid_appointment_time(
                    PyStr(Format(input.d["date"]) \o <<Ch.sp>>
                            \o Format(input.d["time"])))
             /\ \A i \in AppointmentIds :
                    is_valid_appointment_data(
                        PyDict([input.d EXCEPT !["patient_id"] = i])) = verdict

\* A record with a date and a time of text has been accepted.
C7_Witness ==
    /\ called = "is_valid_appointment_data"
    /\ verdict = "True"
    /\ IsStr(input.d["date"]) /\ IsStr(input.d["time"])

\* C8: is_valid_phone(s) is true exactly when s is a non-empty text with
\* ten or eleven digit characters; the other characters and their places
\* do not matter.
C8_PhoneDigitCount ==
    called = "is_valid_phone" =>
        (verdict = "True" <=>
            /\ IsStr(input)
            /\ Len(input.s) > 0
            /\ Cardinality(C2_DigitPositions(input.s)) \in {10, 11})

\* A phone number with characters that are no digits has been accepted.
C8_Witness ==
    /\ called = "is_valid_phone"
    /\ verdict = "True"
    /\ Len(input.s) > Cardinality(C2_DigitPositions(input.s))

\* The days of the month, from the calendar.
C9_MonthDays(y, m) ==
    CASE m \in {1, 3, 5, 7, 8, 10, 12} -> 31
      [] m \in {4, 6, 9, 11} -> 30
      [] m = 2 -> IF (y % 400 = 0) \/ (y % 4 = 0 /\ y % 100 # 0) THEN 29 ELSE 28
      [] OTHER -> 0

\* C9: of the well-shaped strings, is_valid_appointment_time rejects each
\* with a month outside 01-12, a day the month does not have (February 29
\* outside a leap year too), an hour above 23 or a minute above 59, and
\* accepts February 29 of a leap year.
C9_CalendarChecked ==
    (called = "is_valid_appointment_time" /\ IsStr(input) /\ C5_Shape(input.s)) =>
        LET y  == 100 * C5_Field(input.s, 1) + C5_Field(input.s, 3)
            m  == C5_Field(input.s, 6)
            d  == C5_Field(input.s, 9)
            hh == C5_Field(input.s, 12)
            mm == C5_Field(input.s, 15)
        IN  /\ (m \notin 1..12 \/ d \notin 1..C9_MonthDays(y, m) \/ hh > 23 \/ mm > 59)
                => verdict = "False"
            /\ (y >= 1 /\ m = 2 /\ d = 29 /\ C9_MonthDays(y, 2) = 29 /\ hh <= 23 /\ mm <= 59)
                => verdict = "True"

\* February 29 of 1900, which was no leap year, has been rejected.
C9_Witness ==
    /\ called = "is_valid_appointment_time"
    /\ input = PyStr(WellShaped(1900, 2, 29, 10, 0))
    /\ verdict = "False"

\* C10: the verdict of is_valid_patient_data is the same whatever is stored
\* under contact, and a record without the key contact is rejected.
C10_ContactNotRead ==
    (called = "is_valid_patient_data" /\ IsDict(input)) =>
        IF "contact" \in DOMAIN input.d
        THEN \A c \in PatientContacts :
                is_valid_patient_data(PyDict([input.d EXCEPT !["contact"] = c])) = verdict
        ELSE verdict = "False"

\* A record has been accepted whose contact is None.
C10_Witness ==
    /\ called = "is_valid_patient_data"
    /\ verdict = "True"
    /\ input.d["contact"] = PyNone

=============================================================================
